---------------------------- MODULE Spec2Model ----------------------------
(***************************************************************************)
(* A model of run_xnat2bids.py: the merge of the default and the user      *)
(* configuration, the compilation of one argument list per session, the    *)
(* sequential submission of the xnat2bids jobs to sbatch, the harvest of   *)
(* the job ids and the submission of the bids-validator jobs.              *)
(*                                                                         *)
(* A Python string is a sequence of atoms.  An atom is a run of characters *)
(* that no operation of the program looks into; the characters the program *)
(* does look at (blank, newline, comma, dash, colon, decimal digits) are   *)
(* atoms of their own.  A Python dict is the sequence of its items in      *)
(* insertion order, each item a record [k, v] with distinct k.             *)
(***************************************************************************)
EXTENDS Naturals, Sequences, FiniteSets, TLC

VARIABLES
    pc,             \* where main() stands
    default_params, \* x2b_default_config.toml as loaded (main, line 573)
    config,         \* the user's config as loaded, or NoConfig (args.config is None)
    requested,      \* the sessions fetch_requested_sessions will return
    project_of,     \* XNAT's answer: session -> <<pi, study>> of its project
    user,           \* get_user_credentials
    password,
    arg_dict,       \* the merged configuration
    argument_lists, \* assemble_argument_lists' result
    bids_root,      \* main's bids_root
    needs_validation,
    idx,            \* position of the running for loop (launch_x2b_jobs, launch_bids_validator)
    output,         \* launch_x2b_jobs' list of stdouts
    x2b_jobs,       \* fetch_job_ids(x2b_output)
    bids_experiments,
    validator_output,
    validator_jobs,
    spawned,        \* every sbatch process main has spawned, in order
    slurm_queue,    \* the jobs the scheduler has accepted, with the ids it gave
    debug_log,      \* the commands handed to logging.debug
    hung            \* the scheduler will never answer the process being awaited

vars == <<pc, default_params, config, requested, project_of, user, password,
          arg_dict, argument_lists, bids_root, needs_validation, idx, output,
          x2b_jobs, bids_experiments, validator_output, validator_jobs,
          spawned, slurm_queue, debug_log, hung>>

---------------------------------------------------------------------------
(* Bounds of the model.                                                    *)

\* the longest list of sessions a run processes
MaxSessions == 2
\* the largest number of blank-separated words in a password
MaxPassWords == 2
\* the largest sequence number written in an includeseq / skipseq string
MaxSeqNum == 11
\* the largest number of comma-separated groups in an includeseq / skipseq string
MaxGroups == 2
\* the largest verbosity level
MaxVerbose == 2

---------------------------------------------------------------------------
(* Python strings.                                                         *)

SP == " "
NL == "\n"
IsSpace(a) == a \in {SP, NL}

DigitChars == <<"0", "1", "2", "3", "4", "5", "6", "7", "8", "9">>
IsDigit(a) == \E i \in 1..10 : DigitChars[i] = a
DigitVal(a) == (CHOOSE i \in 1..10 : DigitChars[i] = a) - 1

\* str(n) of a non-negative int
RECURSIVE StrOfInt(_)
StrOfInt(n) ==
    IF n < 10 THEN <<DigitChars[n + 1]>>
    ELSE StrOfInt(n \div 10) \o <<DigitChars[(n % 10) + 1]>>

\* int(s) raises ValueError unless s is a non-empty run of digits
\* (signs and blanks do not occur: the callers split on "-" and drop blanks)
IntParses(s) == Len(s) > 0 /\ \A i \in 1..Len(s) : IsDigit(s[i])
RECURSIVE IntOf(_)
IntOf(s) ==
    IF Len(s) = 0 THEN 0
    ELSE 10 * IntOf(SubSeq(s, 1, Len(s) - 1)) + DigitVal(s[Len(s)])

\* s.replace(a, "") for a one-character a
RemoveChar(s, a) == SelectSeq(s, LAMBDA c : c # a)

\* a in s, for a one-character a
Contains(s, a) == \E i \in 1..Len(s) : s[i] = a

\* s.split(sep) for a one-character sep: the pieces, empty ones included
RECURSIVE SplitOn(_, _)
SplitOn(s, sep) ==
    IF ~Contains(s, sep) THEN <<s>>
    ELSE LET i == CHOOSE j \in 1..Len(s) :
                    s[j] = sep /\ \A k \in 1..(j - 1) : s[k] # sep
         IN  <<SubSeq(s, 1, i - 1)>> \o SplitOn(SubSeq(s, i + 1, Len(s)), sep)

\* s.split(): the maximal runs of non-blank characters.  The string is cut
\* at the blank nearest after its middle, or else the last one before it.
RECURSIVE Words(_)
Words(s) ==
    IF \A i \in 1..Len(s) : ~IsSpace(s[i])
    THEN (IF Len(s) = 0 THEN <<>> ELSE <<s>>)
    ELSE LET mid == (Len(s) + 1) \div 2
             m == IF \E j \in mid..Len(s) : IsSpace(s[j])
                  THEN CHOOSE j \in mid..Len(s) :
                           IsSpace(s[j]) /\ \A k \in mid..(j - 1) : ~IsSpace(s[k])
                  ELSE CHOOSE j \in 1..(mid - 1) :
                           IsSpace(s[j]) /\ \A k \in (j + 1)..(mid - 1) : ~IsSpace(s[k])
         IN  Words(SubSeq(s, 1, m - 1)) \o Words(SubSeq(s, m + 1, Len(s)))

\* sep.join(list)
RECURSIVE Join(_, _)
Join(list, sep) ==
    IF Len(list) = 0 THEN <<>>
    ELSE IF Len(list) = 1 THEN list[1]
    ELSE list[1] \o sep \o Join(Tail(list), sep)

\* s.startswith(prefix)
StartsWith(s, prefix) ==
    Len(s) >= Len(prefix) /\ SubSeq(s, 1, Len(prefix)) = prefix

\* s.replace(sub, ""): every occurrence of sub, left to right, removed
RECURSIVE RemoveAll(_, _)
RemoveAll(s, sub) ==
    IF Len(s) = 0 THEN <<>>
    ELSE IF StartsWith(s, sub) THEN RemoveAll(SubSeq(s, Len(sub) + 1, Len(s)), sub)
    ELSE <<s[1]>> \o RemoveAll(Tail(s), sub)

\* s.strip()
RECURSIVE Strip(_)
Strip(s) ==
    IF Len(s) = 0 THEN s
    ELSE IF IsSpace(s[1]) THEN Strip(Tail(s))
    ELSE IF IsSpace(s[Len(s)]) THEN Strip(SubSeq(s, 1, Len(s) - 1))
    ELSE s

\* list.insert(i, x) with a 0-based i >= 0: past the end it appends
ListInsert(list, i, x) ==
    IF i >= Len(list) THEN Append(list, x)
    ELSE SubSeq(list, 1, i) \o <<x>> \o SubSeq(list, i + 1, Len(list))

---------------------------------------------------------------------------
(* The values of a TOML table: strings, booleans, integers, lists of       *)
(* strings.  One record shape for all, the unused fields at a default.     *)

StrV(s)  == [t |-> "str",  s |-> s,    b |-> FALSE, n |-> 0, l |-> <<>>]
BoolV(b) == [t |-> "bool", s |-> <<>>, b |-> b,     n |-> 0, l |-> <<>>]
IntV(n)  == [t |-> "int",  s |-> <<>>, b |-> FALSE, n |-> n, l |-> <<>>]
ListV(l) == [t |-> "list", s |-> <<>>, b |-> FALSE, n |-> 0, l |-> l]

\* value == "" or value is None (a loaded TOML table holds no None)
IsBlank(value) == value.t = "str" /\ value.s = <<>>

\* f"{value}"
Format(value) ==
    CASE value.t = "str"  -> value.s
      [] value.t = "bool" -> IF value.b THEN <<"True">> ELSE <<"False">>
      [] value.t = "int"  -> StrOfInt(value.n)
      [] value.t = "list" ->
            <<"[">> \o Join([i \in 1..Len(value.l) |-> <<"'">> \o value.l[i] \o <<"'">>],
                            <<",", SP>>) \o <<"]">>

---------------------------------------------------------------------------
(* Python dicts, in insertion order.                                       *)

Item(k, v) == [k |-> k, v |-> v]
Keys(d) == {d[i].k : i \in 1..Len(d)}
Has(d, k) == k \in Keys(d)
Get(d, k) == d[CHOOSE i \in 1..Len(d) : d[i].k = k].v

\* d[k] = v: an existing key keeps its place
Put(d, k, v) ==
    IF Has(d, k) THEN [i \in 1..Len(d) |-> IF d[i].k = k THEN Item(k, v) ELSE d[i]]
    ELSE Append(d, Item(k, v))

\* a merge that lets the keys d already has keep their values
RECURSIVE UpdateMissingOnly(_, _)
UpdateMissingOnly(d, other) ==
    IF Len(other) = 0 THEN d
    ELSE UpdateMissingOnly(IF Has(d, other[1].k) THEN d
                           ELSE Append(d, Item(other[1].k, other[1].v)),
                           Tail(other))

\* d.update(other)
RECURSIVE Update(_, _)
Update(d, other) ==
    IF Len(other) = 0 THEN d
    ELSE Update(Put(d, other[1].k, other[1].v), Tail(other))

---------------------------------------------------------------------------
(* The registry of xnat2bids parameters: name -> <<type, needs_binding>>.  *)

xnat2bids_params ==
    ("bidsmap-file" :> <<"PARAM_VAL", TRUE>>) @@
    ("bids_root"    :> <<"PARAM_VAL", TRUE>>) @@
    ("cleanup"      :> <<"FLAG_ONLY", FALSE>>) @@
    ("export-only"  :> <<"FLAG_ONLY", FALSE>>) @@
    ("host"         :> <<"PARAM_VAL", FALSE>>) @@
    ("includeseq"   :> <<"MULTI_VAL", FALSE>>) @@
    ("log-id"       :> <<"PARAM_VAL", FALSE>>) @@
    ("overwrite"    :> <<"FLAG_ONLY", FALSE>>) @@
    ("project"      :> <<"PARAM_VAL", FALSE>>) @@
    ("sessions"     :> <<"MULTI_VAL", FALSE>>) @@
    ("skip-export"  :> <<"FLAG_ONLY", FALSE>>) @@
    ("skipseq"      :> <<"MULTI_VAL", FALSE>>) @@
    ("subjects"     :> <<"MULTI_VAL", FALSE>>) @@
    ("version"      :> <<"PARAM_VAL", FALSE>>) @@
    ("verbose"      :> <<"MULTI_FLAG", FALSE>>)

\* f"--{param}", one word
Flag(param) == "--" \o param

\* f"--{param} {v}" for a string v
Opt(param, v) == <<Flag(param), SP>> \o v

---------------------------------------------------------------------------
(* merge_config_files.  A missing section raises KeyError.                 *)

NoConfig == <<Item("(none)", <<>>)>>
KeyError == <<Item("(KeyError)", <<>>)>>

\* the loop over user_cfg.keys(): merged_dict[key].update(user_cfg[key])
RECURSIVE merge_session_blocks(_, _)
merge_session_blocks(merged_dict, cfg_items) ==
    IF Len(cfg_items) = 0 THEN merged_dict
    ELSE LET key == cfg_items[1].k
             section == IF Has(merged_dict, key) THEN Get(merged_dict, key) ELSE <<>>
         IN  IF key = "slurm-args" \/ key = "xnat2bids-args"
             THEN merge_session_blocks(merged_dict, Tail(cfg_items))
             ELSE merge_session_blocks(
                      Put(merged_dict, key, Update(section, cfg_items[1].v)),
                      Tail(cfg_items))

merge_config_files(user_cfg, default_cfg) ==
    IF ~Has(user_cfg, "slurm-args") \/ ~Has(default_cfg, "slurm-args")
       \/ ~Has(default_cfg, "xnat2bids-args")
    THEN KeyError
    ELSE LET user_slurm == Get(user_cfg, "slurm-args")
             default_slurm == Get(default_cfg, "slurm-args")
             default_x2b == Get(default_cfg, "xnat2bids-args")
             m1 == Put(<<>>, "xnat2bids-args", Update(<<>>, default_x2b))
             m2 == Put(m1, "slurm-args", Update(<<>>, default_slurm))
             m3 == Put(m2, "slurm-args", Update(Get(m2, "slurm-args"), user_slurm))
             m4 == IF Has(user_cfg, "xnat2bids-args")
                   THEN Put(m3, "xnat2bids-args",
                            Update(Get(m3, "xnat2bids-args"), Get(user_cfg, "xnat2bids-args")))
                   ELSE m3
         IN  merge_session_blocks(m4, user_cfg)

merge_default_params(config_path, defaults) ==
    IF config_path = NoConfig THEN defaults
    ELSE merge_config_files(config_path, defaults)

---------------------------------------------------------------------------
(* extract_params: [err, s], err when the Python raises.                   *)

\* range(int(startval), int(stopval)): the range without its upper end
RECURSIVE expand_range_exclusive(_, _, _)
expand_range_exclusive(param, lo, hi) ==
    IF lo >= hi THEN <<>>
    ELSE <<Opt(param, StrOfInt(lo))>> \o expand_range_exclusive(param, lo + 1, hi)

\* list(range(int(startval), int(stopval) + 1)), each as f"--{param} {v}"
RECURSIVE expand_range(_, _, _)
expand_range(param, lo, hi) ==
    IF lo > hi THEN <<>>
    ELSE <<Opt(param, StrOfInt(lo))>> \o expand_range(param, lo + 1, hi)

\* one val of val_list: [err, arg], arg the strings appended
extract_val(param, val) ==
    IF Contains(val, "-")
    THEN LET parts == SplitOn(val, "-")
         IN  IF Len(parts) # 2 \/ ~IntParses(parts[1]) \/ ~IntParses(parts[2])
             THEN [err |-> TRUE, arg |-> <<>>]
             ELSE [err |-> FALSE,
                   arg |-> expand_range(param, IntOf(parts[1]), IntOf(parts[2]))]
    ELSE [err |-> FALSE, arg |-> <<Opt(param, val)>>]

RECURSIVE extract_vals(_, _)
extract_vals(param, val_list) ==
    IF Len(val_list) = 0 THEN [err |-> FALSE, arg |-> <<>>]
    ELSE LET first == extract_val(param, val_list[1])
             rest == extract_vals(param, Tail(val_list))
         IN  [err |-> first.err \/ rest.err, arg |-> first.arg \o rest.arg]

extract_params(param, value) ==
    IF param \in {"includeseq", "skipseq"} /\ value.t = "str"
    THEN LET r == extract_vals(param, SplitOn(RemoveChar(value.s, SP), ","))
         IN  [err |-> r.err, s |-> Join(r.arg, <<SP>>)]
    ELSE CASE value.t = "list" ->
                [err |-> FALSE,
                 s |-> Join([i \in 1..Len(value.l) |-> Opt(param, value.l[i])], <<SP>>)]
           [] value.t = "str" ->
                [err |-> FALSE,
                 s |-> Join([i \in 1..Len(value.s) |-> Opt(param, <<value.s[i]>>)], <<SP>>)]
           [] OTHER -> [err |-> TRUE, s |-> <<>>]

---------------------------------------------------------------------------
(* parse_x2b_params.                                                       *)

positional_args == {"sessions", "bids_root"}

\* a FLAG_ONLY branch that appends nothing for export-only
flag_only_but_export_only(param, value) ==
    IF param = "export-only" THEN <<>> ELSE <<<<Flag(param)>>>>

\* the FLAG_ONLY branch: f"--{param}" appended, whatever the value
flag_only(param, value) == <<<<Flag(param)>>>>

\* the strings one known, non-blank, non-positional parameter appends:
\* [err, list]
encode_param(param, value) ==
    LET param_type == xnat2bids_params[param][1]
    IN  CASE param_type = "PARAM_VAL" ->
                [err |-> FALSE, list |-> <<Opt(param, Format(value))>>]
          [] param_type = "MULTI_VAL" ->
                LET r == extract_params(param, value)
                IN  [err |-> r.err, list |-> <<r.s>>]
          [] param_type = "FLAG_ONLY" ->
                [err |-> FALSE, list |-> flag_only(param, value)]
          [] param_type = "MULTI_FLAG" ->
                CASE value.t = "int" ->
                        [err |-> FALSE, list |-> [i \in 1..value.n |-> <<Flag(param)>>]]
                  [] value.t = "bool" ->
                        [err |-> FALSE,
                         list |-> IF value.b THEN <<<<Flag(param)>>>> ELSE <<>>]
                  [] OTHER -> [err |-> TRUE, list |-> <<>>]

\* the for loop over xnat2bids_dict.items(); status is "ok", "exit" (the
\* exit() of an invalid parameter) or "raise" (an uncaught exception)
RECURSIVE parse_items(_, _, _)
parse_items(items, x2b_param_list, bindings) ==
    IF Len(items) = 0
    THEN [status |-> "ok", list |-> x2b_param_list, bindings |-> bindings]
    ELSE LET param == items[1].k
             value == items[1].v
         IN  IF param \notin DOMAIN xnat2bids_params
             THEN [status |-> "exit", list |-> x2b_param_list, bindings |-> bindings]
             ELSE IF IsBlank(value) \/ param \in positional_args
             THEN parse_items(Tail(items), x2b_param_list, bindings)
             ELSE LET e == encode_param(param, value)
                  IN  IF e.err
                      THEN [status |-> "raise", list |-> x2b_param_list,
                            bindings |-> bindings]
                      ELSE parse_items(Tail(items), x2b_param_list \o e.list,
                               IF xnat2bids_params[param][2]
                               THEN Append(bindings, Format(value))
                               ELSE bindings)

parse_x2b_params(xnat2bids_dict, session, bindings) ==
    IF Has(xnat2bids_dict, "bids_root")
    THEN LET arg == Format(Get(xnat2bids_dict, "bids_root"))
         IN  parse_items(xnat2bids_dict, <<session, arg>>, Append(bindings, arg))
    ELSE parse_items(xnat2bids_dict, <<session>>, bindings)

---------------------------------------------------------------------------
(* compile_slurm_list, compile_xnat2bids_list.                             *)

RECURSIVE compile_slurm_items(_)
compile_slurm_items(items) ==
    IF Len(items) = 0 THEN <<>>
    ELSE IF ~IsBlank(items[1].v)
    THEN <<Opt(items[1].k, Format(items[1].v))>> \o compile_slurm_items(Tail(items))
    ELSE compile_slurm_items(Tail(items))

compile_slurm_list(cfg) == compile_slurm_items(Get(cfg, "slurm-args"))

\* the loop over arg_dict_copy.items(): the xnat2bids-args section replaces
\* x2b_param_dict, the session's own section updates it
RECURSIVE session_params(_, _, _)
session_params(sections, session, x2b_param_dict) ==
    IF Len(sections) = 0 THEN x2b_param_dict
    ELSE IF sections[1].k = "xnat2bids-args"
    THEN session_params(Tail(sections), session, sections[1].v)
    ELSE IF <<sections[1].k>> = session
    THEN session_params(Tail(sections), session, Update(x2b_param_dict, sections[1].v))
    ELSE session_params(Tail(sections), session, x2b_param_dict)

compile_xnat2bids_list(session, cfg) ==
    parse_x2b_params(session_params(cfg, session, <<>>), session, <<>>)

---------------------------------------------------------------------------
(* assemble_argument_lists: [status, argument_lists, bids_root, log].      *)

\* the sessions of arg_dict['xnat2bids-args']['sessions']
sessions_of(cfg) == Get(Get(cfg, "xnat2bids-args"), "sessions").l

\* [param for param in x2b_param_list if not param.startswith('--pass')]
without_pass_params(x2b_param_list) ==
    SelectSeq(x2b_param_list, LAMBDA param : ~StartsWith(param, <<"--pass">>))

\* the body of the for loop for one session, compile_xnat2bids_list having
\* returned c: [args, bids_root, log]
assemble_session(cfg, usr, pwd, root, session, c) ==
    LET with_user == ListInsert(c.list, 2, <<"--user", SP>> \o usr)
        with_pass == ListInsert(with_user, 3, <<"--pass", SP>> \o pwd)
        slurm == compile_slurm_list(cfg)
        slurm_param_list ==
            IF ~Has(Get(cfg, "slurm-args"), "output")
            THEN Append(slurm, Opt("output", <<"/gpfs/scratch/">> \o usr
                                     \o <<"/logs/%x-">> \o session \o <<"-%J.txt">>))
            ELSE slurm
        configured == Has(Get(cfg, "xnat2bids-args"), "bids_root")
        x2b_param_list == IF configured THEN with_pass
                          ELSE ListInsert(with_pass, 1, root)
        bindings == IF configured THEN c.bindings ELSE Append(c.bindings, root)
    IN  [args |-> [x2b |-> x2b_param_list, slurm |-> slurm_param_list,
                   bindings |-> bindings],
         bids_root |-> IF configured THEN with_pass[2] ELSE root,
         log |-> [message |-> "Argument List", session |-> session,
                  tokens |-> without_pass_params(x2b_param_list)]]

\* the loop over the sessions.  An exit() or an exception in one session's
\* compilation ends the loop: nothing after it is compiled.
RECURSIVE assemble_sessions(_, _, _, _, _, _, _)
assemble_append(cfg, usr, pwd, sessions, lists, log, a) ==
    assemble_sessions(cfg, usr, pwd, a.bids_root, Tail(sessions),
                      Append(lists, a.args), Append(log, a.log))

assemble_compiled(cfg, usr, pwd, root, sessions, lists, log, c) ==
    IF c.status # "ok"
    THEN [status |-> c.status, argument_lists |-> lists, bids_root |-> root, log |-> log]
    ELSE assemble_append(cfg, usr, pwd, sessions, lists, log,
                         assemble_session(cfg, usr, pwd, root, sessions[1], c))

assemble_sessions(cfg, usr, pwd, root, sessions, lists, log) ==
    IF Len(sessions) = 0
    THEN [status |-> "ok", argument_lists |-> lists, bids_root |-> root, log |-> log]
    ELSE assemble_compiled(cfg, usr, pwd, root, sessions, lists, log,
                           compile_xnat2bids_list(sessions[1], cfg))

assemble_argument_lists(cfg, usr, pwd, root) ==
    assemble_sessions(cfg, usr, pwd, root, sessions_of(cfg), <<>>, <<>>)

---------------------------------------------------------------------------
(* launch_x2b_jobs, one pass of its loop.                                  *)

\* a test that takes every job to need validation
always_needs_validation(xnat2bids_param_list) == TRUE

\* "--export-only" not in xnat2bids_param_list
lacks_export_only(xnat2bids_param_list) ==
    \A i \in 1..Len(xnat2bids_param_list) :
        xnat2bids_param_list[i] # <<"--export-only">>

\* the loop that drops "--pass" and the option after it
RECURSIVE remove_password(_, _)
remove_password(opts, exclude_next_opt) ==
    IF Len(opts) = 0 THEN <<>>
    ELSE IF exclude_next_opt THEN remove_password(Tail(opts), FALSE)
    ELSE IF opts[1] = <<"--pass">> THEN remove_password(Tail(opts), TRUE)
    ELSE <<opts[1]>> \o remove_password(Tail(opts), FALSE)

\* xnat2bids_options.split() of ' '.join(xnat2bids_param_list)
x2b_options(xnat2bids_param_list) == Words(Join(xnat2bids_param_list, <<SP>>))

simg == <<"/gpfs/data/bnc/simgs/brownbnc/xnat-tools.sif">>

\* the sbatch process of one argument list: the words of its command line
\* and of the script it wraps
x2b_process(args) ==
    [prog |-> "sbatch",
     slurm |-> Words(Join(args.slurm, <<SP>>)),
     dep |-> <<>>,
     bind |-> Words(Join([i \in 1..Len(args.bindings) |->
                             <<"-B", SP>> \o args.bindings[i]], <<SP>>)),
     image |-> simg,
     tool |-> "xnat2bids",
     args |-> x2b_options(args.x2b),
     session |-> args.x2b[1]]

x2b_debug(args) ==
    [message |-> "Executing xnat2bids", session |-> args.x2b[1],
     tokens |-> remove_password(x2b_options(args.x2b), FALSE)]

---------------------------------------------------------------------------
(* The scheduler's answers and fetch_job_ids.                              *)

submitted_prefix == <<"Submitted", SP, "batch", SP, "job", SP>>

\* sbatch's stdout for an accepted job
Acknowledgment(id) == submitted_prefix \o StrOfInt(id) \o <<NL>>

\* stdouts that do not match "Submitted batch job <integer>"
MalformedAcks == {<<>>, <<"sbatch:", SP, "error:", SP, "Batch", SP, "job", SP,
                          "submission", SP, "failed", NL>>}

fetch_job_id(line) == Strip(RemoveAll(line, submitted_prefix))

fetch_job_ids(stdout) == [i \in 1..Len(stdout) |-> fetch_job_id(stdout[i])]

---------------------------------------------------------------------------
(* launch_bids_validator.                                                  *)

\* str.lower() on the words of the project names of the model
Lower(a) ==
    CASE a = "BNC" -> "bnc"
      [] a = "DEMO" -> "demo"
      [] a = "PILOT" -> "pilot"
      [] OTHER -> a

\* prepare_path_prefixes: <<pi_prefix, study_prefix>>
prepare_path_prefixes(project) ==
    LET parts == SplitOn(project, "_")
    IN  <<[i \in 1..Len(parts[1]) |-> Lower(parts[1][i])],
          [i \in 1..(1 + Len(parts[2])) |->
              IF i = 1 THEN "study-" ELSE Lower(parts[2][i - 1])]>>

bids_dir_of(root, project) ==
    LET pre == prepare_path_prefixes(project)
    IN  root \o <<"/">> \o pre[1] \o <<"/">> \o pre[2] \o <<"/", "bids">>

\* the first loop: the distinct bids directories, in order of first use
RECURSIVE collect_experiments(_, _, _, _)
collect_experiments(root, projects, sessions, experiments) ==
    IF Len(sessions) = 0 THEN experiments
    ELSE LET bids_dir == bids_dir_of(root, projects[sessions[1]])
         IN  collect_experiments(root, projects, Tail(sessions),
                 IF \E i \in 1..Len(experiments) : experiments[i] = bids_dir
                 THEN experiments
                 ELSE Append(experiments, bids_dir))

\* s.replace(sub, new)
RECURSIVE ReplaceAll(_, _, _)
ReplaceAll(s, sub, new) ==
    IF Len(s) = 0 THEN <<>>
    ELSE IF StartsWith(s, sub)
    THEN new \o ReplaceAll(SubSeq(s, Len(sub) + 1, Len(s)), sub, new)
    ELSE <<s[1]>> \o ReplaceAll(Tail(s), sub, new)

\* bids_val_slurm_params, joined, the job name replaced
validator_slurm_options(cfg, usr) ==
    LET slurm_args == Get(cfg, "slurm-args")
        params == compile_slurm_list(cfg)
        x2b_output == SplitOn(Format(Get(slurm_args, "output")), "/")
        val_output == Join([i \in 1..Len(x2b_output) |->
                               IF i = Len(x2b_output) THEN <<"%x-%J.txt">>
                               ELSE x2b_output[i]], <<"/">>)
        with_output ==
            IF ~Has(slurm_args, "output")
            THEN Append(params, Opt("output", <<"/gpfs/scratch/">> \o usr
                                      \o <<"/logs/%x-%J.txt">>))
            ELSE [i \in 1..Len(params) |->
                     IF Contains(params[i], "--output")
                     THEN Opt("output", val_output) ELSE params[i]]
    IN  ReplaceAll(Join(Append(with_output, <<"--kill-on-invalid-dep=yes">>), <<SP>>),
                   <<"--job-name", SP, "xnat2bids">>,
                   <<"--job-name", SP, "bids-validator">>)

\* ":".join(job_deps)
afterok_ids(job_deps) == Join(job_deps, <<":">>)

validator_process(cfg, usr, bids_experiment_dir, job_deps) ==
    [prog |-> "sbatch",
     slurm |-> Words(validator_slurm_options(cfg, usr)),
     dep |-> <<"afterok", ":">> \o afterok_ids(job_deps),
     bind |-> <<<<"-B">>, bids_experiment_dir>>,
     image |-> <<"/gpfs/data/bnc/simgs/bids/validator-latest.sif">>,
     tool |-> "bids-validator",
     args |-> <<bids_experiment_dir>>,
     session |-> <<>>]

---------------------------------------------------------------------------
(* main(), without --diff.                                                 *)

inputs == <<default_params, config, requested, project_of, user, password>>

\* lines 571-576
MergeDefaultParams ==
    /\ pc = "merge"
    /\ arg_dict' = merge_default_params(config, default_params)
    /\ pc' = IF arg_dict' = KeyError THEN "raised" ELSE "sessions"
    /\ UNCHANGED <<inputs, argument_lists, bids_root, needs_validation, idx, output,
                   x2b_jobs, bids_experiments, validator_output, validator_jobs,
                   spawned, slurm_queue, debug_log, hung>>

\* lines 588-592: fetch_requested_sessions or prompt_user_for_sessions;
\* requested is what XNAT lists for the project, or what the user types
FetchSessions ==
    /\ pc = "sessions"
    /\ LET x2b == Get(arg_dict, "xnat2bids-args")
           asked == Has(x2b, "project") \/ Has(x2b, "subject") \/ Has(x2b, "sessions")
           sessions ==
               IF asked
               THEN (IF Has(x2b, "project") THEN requested ELSE <<>>)
                    \o (IF Has(x2b, "sessions") THEN Get(x2b, "sessions").l ELSE <<>>)
               ELSE requested
       IN  IF asked /\ ~Has(x2b, "host")
           THEN pc' = "raised" /\ UNCHANGED arg_dict
           ELSE /\ pc' = "assemble"
                /\ arg_dict' = Put(arg_dict, "xnat2bids-args",
                                   Put(x2b, "sessions", ListV(sessions)))
    /\ UNCHANGED <<inputs, argument_lists, bids_root, needs_validation, idx, output,
                   x2b_jobs, bids_experiments, validator_output, validator_jobs,
                   spawned, slurm_queue, debug_log, hung>>

\* line 594, r what assemble_argument_lists returned or how it ended
Assembled(r) ==
    /\ pc' = CASE r.status = "ok" -> "launch"
               [] r.status = "exit" -> "exited"
               [] OTHER -> "raised"
    /\ argument_lists' = r.argument_lists
    /\ bids_root' = r.bids_root
    /\ debug_log' = debug_log \o r.log

AssembleArgumentLists ==
    /\ pc = "assemble"
    /\ Assembled(assemble_argument_lists(arg_dict, user, password, bids_root))
    /\ idx' = 1
    /\ UNCHANGED <<inputs, arg_dict, needs_validation, output, x2b_jobs,
                   bids_experiments, validator_output, validator_jobs, spawned,
                   slurm_queue, hung>>

\* launch_x2b_jobs, lines 434-487: one pass of the loop up to the spawn
LaunchSpawn ==
    /\ pc = "launch"
    /\ idx <= Len(argument_lists)
    /\ needs_validation' =
           (needs_validation \/ lacks_export_only(argument_lists[idx].x2b))
    /\ debug_log' = Append(debug_log, x2b_debug(argument_lists[idx]))
    /\ spawned' = Append(spawned, x2b_process(argument_lists[idx]))
    /\ pc' = "communicate"
    /\ UNCHANGED <<inputs, arg_dict, argument_lists, bids_root, idx, output, x2b_jobs,
                   bids_experiments, validator_output, validator_jobs, slurm_queue,
                   hung>>

\* lines 489-490: the scheduler queues the job and sbatch prints its id
LaunchAcknowledged ==
    /\ pc = "communicate"
    /\ ~hung
    /\ slurm_queue' = Append(slurm_queue, [id |-> StrOfInt(Len(slurm_queue) + 1),
                                           job |-> spawned[Len(spawned)]])
    /\ output' = Append(output, Acknowledgment(Len(slurm_queue) + 1))
    /\ idx' = idx + 1
    /\ pc' = "launch"
    /\ UNCHANGED <<inputs, arg_dict, argument_lists, bids_root, needs_validation,
                   x2b_jobs, bids_experiments, validator_output, validator_jobs,
                   spawned, debug_log, hung>>

\* lines 489-490: sbatch ends without the acknowledgment
LaunchRefused ==
    /\ pc = "communicate"
    /\ ~hung
    /\ \E stdout \in MalformedAcks : output' = Append(output, stdout)
    /\ idx' = idx + 1
    /\ pc' = "launch"
    /\ UNCHANGED <<inputs, arg_dict, argument_lists, bids_root, needs_validation,
                   x2b_jobs, bids_experiments, validator_output, validator_jobs,
                   spawned, slurm_queue, debug_log, hung>>

\* the scheduler never answers: await proc.communicate() does not return
SchedulerHangs ==
    /\ pc \in {"communicate", "validator_communicate"}
    /\ ~hung
    /\ hung' = TRUE
    /\ UNCHANGED <<inputs, pc, arg_dict, argument_lists, bids_root, needs_validation,
                   idx, output, x2b_jobs, bids_experiments, validator_output,
                   validator_jobs, spawned, slurm_queue, debug_log>>

\* lines 492, 598, 601
LaunchReturn ==
    /\ pc = "launch"
    /\ idx > Len(argument_lists)
    /\ x2b_jobs' = fetch_job_ids(output)
    /\ pc' = IF needs_validation THEN "validator" ELSE "summary"
    /\ UNCHANGED <<inputs, arg_dict, argument_lists, bids_root, needs_validation, idx,
                   output, bids_experiments, validator_output, validator_jobs,
                   spawned, slurm_queue, debug_log, hung>>

\* launch_bids_validator, lines 496-520
ValidatorExperiments ==
    /\ pc = "validator"
    /\ IF ~Has(Get(arg_dict, "xnat2bids-args"), "host")
       THEN pc' = "raised" /\ UNCHANGED <<bids_experiments, idx>>
       ELSE /\ bids_experiments' =
                   collect_experiments(bids_root, project_of, sessions_of(arg_dict), <<>>)
            /\ idx' = 1
            /\ pc' = "validator_launch"
    /\ UNCHANGED <<inputs, arg_dict, argument_lists, bids_root, needs_validation,
                   output, x2b_jobs, validator_output, validator_jobs, spawned,
                   slurm_queue, debug_log, hung>>

\* lines 522-554
ValidatorSpawn ==
    /\ pc = "validator_launch"
    /\ idx <= Len(bids_experiments)
    /\ spawned' = Append(spawned,
           validator_process(arg_dict, user, bids_experiments[idx], x2b_jobs))
    /\ pc' = "validator_communicate"
    /\ UNCHANGED <<inputs, arg_dict, argument_lists, bids_root, needs_validation, idx,
                   output, x2b_jobs, bids_experiments, validator_output,
                   validator_jobs, slurm_queue, debug_log, hung>>

\* lines 556-557
ValidatorAcknowledged ==
    /\ pc = "validator_communicate"
    /\ ~hung
    /\ slurm_queue' = Append(slurm_queue, [id |-> StrOfInt(Len(slurm_queue) + 1),
                                           job |-> spawned[Len(spawned)]])
    /\ validator_output' =
           Append(validator_output, Acknowledgment(Len(slurm_queue) + 1))
    /\ idx' = idx + 1
    /\ pc' = "validator_launch"
    /\ UNCHANGED <<inputs, arg_dict, argument_lists, bids_root, needs_validation,
                   output, x2b_jobs, bids_experiments, validator_jobs, spawned,
                   debug_log, hung>>

ValidatorRefused ==
    /\ pc = "validator_communicate"
    /\ ~hung
    /\ \E stdout \in MalformedAcks :
           validator_output' = Append(validator_output, stdout)
    /\ idx' = idx + 1
    /\ pc' = "validator_launch"
    /\ UNCHANGED <<inputs, arg_dict, argument_lists, bids_root, needs_validation,
                   output, x2b_jobs, bids_experiments, validator_jobs, spawned,
                   slurm_queue, debug_log, hung>>

\* lines 559, 603
ValidatorReturn ==
    /\ pc = "validator_launch"
    /\ idx > Len(bids_experiments)
    /\ validator_jobs' = fetch_job_ids(validator_output)
    /\ pc' = "summary"
    /\ UNCHANGED <<inputs, arg_dict, argument_lists, bids_root, needs_validation, idx,
                   output, x2b_jobs, bids_experiments, validator_output, spawned,
                   slurm_queue, debug_log, hung>>

\* lines 605-613
Summary ==
    /\ pc = "summary"
    /\ pc' = "done"
    /\ UNCHANGED <<inputs, arg_dict, argument_lists, bids_root, needs_validation, idx,
                   output, x2b_jobs, bids_experiments, validator_output,
                   validator_jobs, spawned, slurm_queue, debug_log, hung>>

Next ==
    \/ MergeDefaultParams
    \/ FetchSessions
    \/ AssembleArgumentLists
    \/ LaunchSpawn
    \/ LaunchAcknowledged
    \/ LaunchRefused
    \/ SchedulerHangs
    \/ LaunchReturn
    \/ ValidatorExperiments
    \/ ValidatorSpawn
    \/ ValidatorAcknowledged
    \/ ValidatorRefused
    \/ ValidatorReturn
    \/ Summary

---------------------------------------------------------------------------
(* The inputs of a run.                                                    *)

SessionIds == {<<"S1">>, <<"S2">>, <<"S3">>}
Projects == {<<"BNC", "_", "DEMO">>, <<"BNC", "_", "PILOT">>}

SeqsUpTo(S, n) == UNION {[1..k -> S] : k \in 0..n}

\* the lists of at most n distinct sessions
SessionLists(n) ==
    {l \in SeqsUpTo(SessionIds, n) : \A i, j \in 1..Len(l) : l[i] = l[j] => i = j}

DefaultX2b == <<Item("host", StrV(<<"https://xnat.bnc.brown.edu">>))>>
DefaultSlurm == <<Item("job-name", StrV(<<"xnat2bids">>)),
                  Item("time", StrV(<<"04:00:00">>))>>
DefaultConfig == <<Item("xnat2bids-args", DefaultX2b), Item("slurm-args", DefaultSlurm)>>

\* a user configuration: slurm-args, xnat2bids-args, then the session blocks
UserConfig(slurm_args, x2b_args, blocks) ==
    <<Item("slurm-args", slurm_args), Item("xnat2bids-args", x2b_args)>> \o blocks

\* the state main() starts from
Start(defaults, configs, sessionLists, projectMaps, passwords) ==
    /\ pc = "merge"
    /\ default_params \in defaults
    /\ config \in configs
    /\ requested \in sessionLists
    /\ project_of \in projectMaps
    /\ user = <<"jdoe">>
    /\ password \in passwords
    /\ arg_dict = <<>>
    /\ argument_lists = <<>>
    /\ bids_root = <<"/users/">> \o user \o <<"/bids-export/">>
    /\ needs_validation = FALSE
    /\ idx = 1
    /\ output = <<>>
    /\ x2b_jobs = <<>>
    /\ bids_experiments = <<>>
    /\ validator_output = <<>>
    /\ validator_jobs = <<>>
    /\ spawned = <<>>
    /\ slurm_queue = <<>>
    /\ debug_log = <<>>
    /\ hung = FALSE

OneProject == [s \in SessionIds |-> <<"BNC", "_", "DEMO">>]
UserSlurm == <<Item("mem", StrV(<<"16G">>))>>

---------------------------------------------------------------------------
(* Spec: runs that differ in what is submitted (the sessions, their        *)
(* projects, export-only, an unregistered parameter).                      *)

RunX2bArgs ==
    {<<>>,
     <<Item("export-only", BoolV(TRUE))>>,
     <<Item("bogus", StrV(<<"x">>))>>}
RunBlocks ==
    {<<>>} \cup
    {<<Item(name, d)>> : name \in {"S1", "S0"},
                         d \in {<<Item("export-only", BoolV(TRUE))>>,
                                <<Item("bogus", StrV(<<"x">>))>>}}
RunConfigs ==
    {NoConfig} \cup {UserConfig(UserSlurm, a, b) : a \in RunX2bArgs, b \in RunBlocks}

Init ==
    Start({DefaultConfig}, RunConfigs, SessionLists(MaxSessions),
          [SessionIds -> Projects], {<<"secret">>})

Spec == Init /\ [][Next]_vars

---------------------------------------------------------------------------
(* SpecRedact: runs that differ in the password.                           *)

PassWords == {<<"pw">>, <<"x1">>}
Passwords == {Join(w, <<SP>>) : w \in SeqsUpTo(PassWords, MaxPassWords)}

RedactConfigs ==
    {NoConfig,
     UserConfig(UserSlurm, <<Item("overwrite", BoolV(TRUE))>>, <<>>),
     UserConfig(UserSlurm, <<Item("export-only", BoolV(TRUE))>>, <<>>)}

InitRedact ==
    Start({DefaultConfig}, RedactConfigs, SessionLists(1), {OneProject}, Passwords)

SpecRedact == InitRedact /\ [][Next]_vars

---------------------------------------------------------------------------
(* SpecMerge: runs that differ in the default and the user configuration.  *)

MergeDefaultX2b ==
    {DefaultX2b,
     DefaultX2b \o <<Item("project", StrV(<<"BNC", "_", "DEMO">>))>>,
     <<Item("overwrite", BoolV(TRUE))>> \o DefaultX2b}
MergeDefaultSlurm ==
    {DefaultSlurm, <<Item("mem", StrV(<<"8G">>)), Item("job-name", StrV(<<"xnat2bids">>))>>}
MergeUserX2b ==
    {<<>>,
     <<Item("project", StrV(<<"BNC", "_", "PILOT">>))>>,
     <<Item("overwrite", BoolV(FALSE)), Item("host", StrV(<<"https://localhost">>))>>,
     <<Item("cleanup", BoolV(TRUE))>>}
MergeUserSlurm ==
    {<<>>,
     <<Item("time", StrV(<<"01:00:00">>))>>,
     <<Item("mem", StrV(<<"16G">>)), Item("job-name", StrV(<<"x2b">>))>>}
MergeBlocks == {<<>>, <<Item("S1", <<Item("overwrite", BoolV(TRUE))>>)>>}

\* the user's file may leave out slurm-args or xnat2bids-args
MergeUserConfigs ==
    {NoConfig}
    \cup {UserConfig(sl, x, b) : sl \in MergeUserSlurm, x \in MergeUserX2b, b \in MergeBlocks}
    \cup {<<Item("slurm-args", sl)>> \o b : sl \in MergeUserSlurm, b \in MergeBlocks}
    \cup {<<Item("xnat2bids-args", x)>> \o b : x \in MergeUserX2b, b \in MergeBlocks}

InitMerge ==
    Start({<<Item("xnat2bids-args", x), Item("slurm-args", sl)>> :
              x \in MergeDefaultX2b, sl \in MergeDefaultSlurm},
          MergeUserConfigs, {<<<<"S1">>>>}, {OneProject}, {<<"secret">>})

SpecMerge == InitMerge /\ [][Next]_vars

---------------------------------------------------------------------------
(* SpecCompile: runs of one session that differ in its parameters.         *)

SeqNums == {1, 3, 7, MaxSeqNum}

\* a group of an includeseq / skipseq string: one number, or a range lo-hi
SeqGroups ==
    {[lo |-> n, hi |-> n, range |-> FALSE] : n \in SeqNums}
    \cup {[lo |-> a, hi |-> b, range |-> TRUE] : <<a, b>> \in {ab \in SeqNums \X SeqNums : ab[1] <= ab[2]}}

GroupLists == UNION {[1..k -> SeqGroups] : k \in 1..MaxGroups}

\* the group as written
GroupText(g) ==
    IF g.range THEN StrOfInt(g.lo) \o <<"-">> \o StrOfInt(g.hi) ELSE StrOfInt(g.lo)

\* the string as written: the groups, comma-separated, blanks allowed
SeqText(groups, sep) == Join([i \in 1..Len(groups) |-> GroupText(groups[i])], sep)

SeqTexts ==
    {SeqText(g, sep) : g \in GroupLists, sep \in {<<",">>, <<",", SP>>}}

FlagValues == {BoolV(TRUE), BoolV(FALSE), StrV(<<>>)}

CompileFlagArgs ==
    {<<Item(f, v)>> : f \in {"cleanup", "overwrite", "skip-export", "export-only"},
                      v \in FlagValues}
CompileSeqArgs ==
    {<<Item("includeseq", StrV(t))>> : t \in SeqTexts}
    \cup {<<Item("skipseq", StrV(SeqText(<<g>>, <<",">>))), Item("overwrite", BoolV(TRUE))>> :
             g \in SeqGroups}
    \cup {<<Item("includeseq", ListV(<<<<"1">>, <<"7">>>>)), Item("verbose", IntV(n))>> :
             n \in 0..MaxVerbose}

CompileBlocks ==
    {<<>>,
     <<Item("S1", <<Item("export-only", BoolV(TRUE))>>)>>,
     <<Item("S1", <<Item("overwrite", BoolV(FALSE))>>)>>}

CompileConfigs ==
    {UserConfig(UserSlurm, a, b) : a \in CompileFlagArgs, b \in CompileBlocks}
    \cup {UserConfig(UserSlurm, a, <<>>) : a \in CompileSeqArgs}

InitCompile ==
    Start({DefaultConfig}, CompileConfigs, {<<<<"S1">>>>}, {OneProject}, {<<"secret">>})

SpecCompile == InitCompile /\ [][Next]_vars

---------------------------------------------------------------------------
(* SpecBlocks: runs that differ in where bids_root and the other           *)
(* parameters of a session come from: xnat2bids-args, the session's own    *)
(* block, both or neither; and in where the user's file has its blocks.    *)

SharedRoot == <<"/data/shared">>
OwnRoot == <<"/data/own">>

BlockX2bArgs ==
    {<<>>,
     <<Item("version", StrV(<<"v1">>))>>,
     <<Item("bids_root", StrV(SharedRoot))>>,
     <<Item("version", StrV(<<"v1">>)), Item("bids_root", StrV(SharedRoot))>>}

BlocksOfS1 ==
    {<<>>} \cup
    {<<Item("S1", d)>> : d \in {<<Item("version", StrV(<<"v2">>))>>,
                                <<Item("bids_root", StrV(OwnRoot))>>,
                                <<Item("log-id", StrV(<<"run7">>))>>}}
BlocksOfS2 ==
    {<<>>,
     <<Item("S2", <<Item("version", StrV(<<"v3">>))>>)>>,
     <<Item("S2", <<Item("bids_root", StrV(<<"/data/two">>))>>)>>}

\* the blocks after the two reserved sections of the file, or before them
BlockConfigs ==
    {UserConfig(UserSlurm, a, b1 \o b2) :
        a \in BlockX2bArgs, b1 \in BlocksOfS1, b2 \in BlocksOfS2}
    \cup {b2 \o b1 \o UserConfig(UserSlurm, a, <<>>) :
        a \in BlockX2bArgs, b1 \in BlocksOfS1, b2 \in BlocksOfS2}

\* a default file that has a block of its own, after or before xnat2bids-args
BlockDefaults ==
    {DefaultConfig \o b : b \in BlocksOfS1 \ {<<>>}}
    \cup {b \o DefaultConfig : b \in BlocksOfS1 \ {<<>>}}

InitBlocks ==
    \/ Start({DefaultConfig}, {NoConfig} \cup BlockConfigs, SessionLists(MaxSessions),
             {OneProject}, {<<"secret">>})
    \/ Start(BlockDefaults, {NoConfig}, SessionLists(MaxSessions),
             {OneProject}, {<<"secret">>})

SpecBlocks == InitBlocks /\ [][Next]_vars

---------------------------------------------------------------------------
(* What the claims speak of.                                               *)

\* the xnat2bids processes and the bids-validator processes, in spawn order
X2bProcs == SelectSeq(spawned, LAMBDA p : p.tool = "xnat2bids")
Validators == SelectSeq(spawned, LAMBDA p : p.tool = "bids-validator")

\* how many members of list equal x
Count(list, x) == Cardinality({i \in 1..Len(list) : list[i] = x})

\* the output location the session's entity resolves to
OutputLocation(session) == bids_dir_of(bids_root, project_of[session])

\* the ids the scheduler gave to the xnat2bids jobs it queued
PrimaryIds ==
    {slurm_queue[i].id : i \in {j \in 1..Len(slurm_queue) :
                                   slurm_queue[j].job.tool = "xnat2bids"}}

\* those of the jobs whose session resolves to location dir
GroupIds(dir) ==
    {slurm_queue[i].id : i \in {j \in 1..Len(slurm_queue) :
                                   /\ slurm_queue[j].job.tool = "xnat2bids"
                                   /\ OutputLocation(slurm_queue[j].job.session) = dir}}

\* the ids a process's dependency clause afterok:id:id... lists
DepIds(p) ==
    LET ids == SplitOn(SubSeq(p.dep, 3, Len(p.dep)), ":")
    IN  {ids[i] : i \in 1..Len(ids)} \ {<<>>}

\* stdout matches "Submitted batch job <integer>"
WellFormedAck(stdout) ==
    /\ StartsWith(stdout, submitted_prefix)
    /\ IntParses(Strip(SubSeq(stdout, Len(submitted_prefix) + 1, Len(stdout))))

Harvested ==
    pc \in {"validator", "validator_launch", "validator_communicate", "summary", "done"}

\* the parameters the i-th session is compiled from
ParamsOf(i) == session_params(arg_dict, sessions_of(arg_dict)[i], <<>>)

IsTrue(params, name) == Has(params, name) /\ Get(params, name) = BoolV(TRUE)

\* the process carries no --export-only token: its job needs validation
RequiresValidation(p) == Count(p.args, <<"--export-only">>) = 0

---------------------------------------------------------------------------
(* C1 *)

HasUnregisteredParameter ==
    \E i \in 1..Len(arg_dict) :
        /\ arg_dict[i].k # "slurm-args"
        /\ \E j \in 1..Len(arg_dict[i].v) :
               arg_dict[i].v[j].k \notin DOMAIN xnat2bids_params

\* C1: whenever xnat2bids-args or any session block of the configuration
\* holds a parameter the registry does not know, no sbatch process is ever
\* spawned and the run does not complete.
C1_UnregisteredParameterAborts ==
    HasUnregisteredParameter => (spawned = <<>> /\ pc # "done")

---------------------------------------------------------------------------
(* C2 *)

\* C2: of the ids of the queued xnat2bids jobs, the dependency clause of
\* every bids-validator job lists exactly those of the jobs whose session
\* resolves to the validator's own bids directory.
C2_ValidatorDependsOnOwnGroup ==
    \A i \in 1..Len(Validators) :
        DepIds(Validators[i]) \cap PrimaryIds = GroupIds(Validators[i].args[1])

---------------------------------------------------------------------------
(* C3 *)

\* C3: with two sessions and exactly one acknowledgment that is not
\* "Submitted batch job <integer>", exactly one job id is harvested, it is
\* the id of the queued job, and no validator depends on anything else.
C3_MalformedAckGivesNoJobId ==
    (/\ Harvested
     /\ Len(output) = 2
     /\ Cardinality({i \in 1..2 : ~WellFormedAck(output[i])}) = 1)
    => /\ Len(x2b_jobs) = 1
       /\ {x2b_jobs[i] : i \in 1..Len(x2b_jobs)} = PrimaryIds
       /\ \A i \in 1..Len(Validators) : DepIds(Validators[i]) \subseteq PrimaryIds

---------------------------------------------------------------------------
(* C4 *)

\* C4: when the scheduler never acknowledges the submission main() awaits,
\* the submission of every other session has been spawned all the same: as
\* many xnat2bids processes exist as there are argument lists.
C4_HungAckBlocksOnlyItsSession ==
    (hung /\ pc = "communicate") => Len(X2bProcs) = Len(argument_lists)

---------------------------------------------------------------------------
(* C5 *)

Locations ==
    {OutputLocation(sessions_of(arg_dict)[i]) : i \in 1..Len(sessions_of(arg_dict))}

SomeJobRequiresValidation ==
    \E i \in 1..Len(X2bProcs) : RequiresValidation(X2bProcs[i])

---------------------------------------------------------------------------
(* C6 *)

ExecLogs == SelectSeq(debug_log, LAMBDA e : e.message = "Executing xnat2bids")

\* the words of a command without --pass and the words of the password
WithoutSecret(full) ==
    LET k == CHOOSE j \in 1..Len(full) :
                 full[j] = <<"--pass">> /\ \A h \in 1..(j - 1) : full[h] # <<"--pass">>
    IN  SubSeq(full, 1, k - 1) \o SubSeq(full, k + Len(Words(password)) + 1, Len(full))

\* C6: the command logged for each submission holds the words of the
\* submitted command, in order, except --pass and every word of the
\* password; and the argument list logged holds no --pass parameter.
C6_RedactedCommandHidesPassword ==
    /\ \A i \in 1..Len(ExecLogs) : ExecLogs[i].tokens = WithoutSecret(X2bProcs[i].args)
    /\ \A i \in 1..Len(debug_log) :
           debug_log[i].message = "Argument List" =>
               \A j \in 1..Len(debug_log[i].tokens) :
                   debug_log[i].tokens[j][1] # "--pass"

---------------------------------------------------------------------------
(* C7 *)

SectionOf(cfg, name) == IF Has(cfg, name) THEN Get(cfg, name) ELSE <<>>

MergedAsClaimed(name) ==
    LET base == SectionOf(default_params, name)
        over == SectionOf(config, name)
        merged == SectionOf(arg_dict, name)
    IN  /\ Keys(merged) = Keys(base) \cup Keys(over)
        /\ Len(merged) = Cardinality(Keys(merged))
        /\ \A k \in Keys(over) : Get(merged, k) = Get(over, k)
        /\ \A k \in Keys(base) \ Keys(over) : Get(merged, k) = Get(base, k)

\* C7: right after the merge of a user configuration, in xnat2bids-args and
\* in slurm-args every key of the user's section has the user's value, every
\* key only in the default section has the default value, and there is no
\* other key.
C7_MergeOverridesPerKey ==
    (pc = "sessions" /\ config # NoConfig)
    => MergedAsClaimed("xnat2bids-args") /\ MergedAsClaimed("slurm-args")

\* a merge where the user overrides one default and leaves another
C7_Witness ==
    /\ pc = "sessions"
    /\ config # NoConfig
    /\ \E name \in {"xnat2bids-args", "slurm-args"} :
          LET base == SectionOf(default_params, name)
              over == SectionOf(config, name)
          IN  /\ \E k \in Keys(base) \cap Keys(over) : Get(base, k) # Get(over, k)
              /\ Keys(base) \ Keys(over) # {}
              /\ Keys(over) \ Keys(base) # {}

---------------------------------------------------------------------------
(* C8 *)

FlagOnlyParams == {"cleanup", "overwrite", "skip-export"}

\* C8: in every compiled argument list, each of --cleanup, --overwrite and
\* --skip-export occurs once if the session's value of the parameter is the
\* boolean true, and not at all otherwise.
C8_FlagOnlyIffTrue ==
    \A i \in 1..Len(argument_lists) : \A f \in FlagOnlyParams :
        Count(argument_lists[i].x2b, <<Flag(f)>>)
            = IF IsTrue(ParamsOf(i), f) THEN 1 ELSE 0

---------------------------------------------------------------------------
(* C9 *)

---------------------------------------------------------------------------
(* C10 *)

\* the values that follow the words --name in a command, in order
ValuesOf(args, name) ==
    LET at == SelectSeq([j \in 1..Len(args) |-> j],
                        LAMBDA j : args[j] = <<Flag(name)>> /\ j < Len(args))
    IN  [k \in 1..Len(at) |-> args[at[k] + 1]]

\* the numbers the groups stand for: each group in its place, a range lo-hi
\* as lo, lo+1, ..., hi
RECURSIVE NumbersOf(_)
NumbersOf(groups) ==
    IF Len(groups) = 0 THEN <<>>
    ELSE [k \in 1..(groups[1].hi - groups[1].lo + 1) |-> StrOfInt(groups[1].lo + k - 1)]
         \o NumbersOf(Tail(groups))

\* every string of the model with the numbers it stands for
SeqTable ==
    {<<SeqText(g, sep), NumbersOf(g)>> : g \in GroupLists, sep \in {<<",">>, <<",", SP>>}}

OneToThreeAndSeven == <<"1", "-", "3", ",", "7">>

\* C10: when a session's includeseq or skipseq is a string of numbers and
\* ranges, the submitted command carries one --name N per number the string
\* stands for, in the string's order, ranges ascending; "1-3,7" gives
\* 1, 2, 3, 7.
C10_RangesExpandInOrder ==
    \A i \in 1..Len(X2bProcs) : \A name \in {"includeseq", "skipseq"} :
        (Has(ParamsOf(i), name) /\ Get(ParamsOf(i), name).t = "str")
        => /\ <<Get(ParamsOf(i), name).s, ValuesOf(X2bProcs[i].args, name)>> \in SeqTable
           /\ Get(ParamsOf(i), name).s = OneToThreeAndSeven
              => ValuesOf(X2bProcs[i].args, name) = <<<<"1">>, <<"2">>, <<"3">>, <<"7">>>>

\* the command of a session with includeseq = "1-3,7" has been spawned
C10_Witness ==
    /\ Len(X2bProcs) = 1
    /\ Has(ParamsOf(1), "includeseq")
    /\ Get(ParamsOf(1), "includeseq") = StrV(OneToThreeAndSeven)
    /\ ValuesOf(X2bProcs[1].args, "includeseq") = <<<<"1">>, <<"2">>, <<"3">>, <<"7">>>>

---------------------------------------------------------------------------
(* C11 *)

\* the section of the session's own block, empty when it has none
BlockOf(session) ==
    LET at == {i \in 1..Len(arg_dict) : <<arg_dict[i].k>> = session}
    IN  IF at = {} THEN <<>> ELSE arg_dict[CHOOSE i \in at : TRUE].v

\* the output location of a session: the bids_root of its block, else of
\* xnat2bids-args, else the default of main()
ConfiguredRoot(session) ==
    IF Has(BlockOf(session), "bids_root")
    THEN Format(Get(BlockOf(session), "bids_root"))
    ELSE IF Has(Get(arg_dict, "xnat2bids-args"), "bids_root")
    THEN Format(Get(Get(arg_dict, "xnat2bids-args"), "bids_root"))
    ELSE <<"/users/">> \o user \o <<"/bids-export/">>

\* C11: every argument list handed to the submission starts with the
\* session, its output location, --user <user> and --pass <password>, in
\* this order, wherever the output location comes from.
C11_CredentialsFollowOutputLocation ==
    \A i \in 1..Len(argument_lists) :
        LET x2b == argument_lists[i].x2b
        IN  /\ Len(x2b) >= 4
            /\ x2b[1] = sessions_of(arg_dict)[i]
            /\ x2b[2] = ConfiguredRoot(sessions_of(arg_dict)[i])
            /\ x2b[3] = <<"--user", SP>> \o user
            /\ x2b[4] = <<"--pass", SP>> \o password

---------------------------------------------------------------------------
(* C12 *)

OverlaidParams == {"version", "log-id", "host"}

\* the strings of an argument list that encode parameter name, in order
TokensOf(x2b, name) ==
    SelectSeq(x2b, LAMBDA param : Len(param) > 0 /\ param[1] = Flag(name))

\* what the claim has the session's parameter encoded as: the value of the
\* session's block when the block defines it, else that of xnat2bids-args
OverlaidTokens(session, name) ==
    LET shared == Get(arg_dict, "xnat2bids-args")
    IN  IF Has(BlockOf(session), name)
        THEN <<Opt(name, Format(Get(BlockOf(session), name)))>>
        ELSE IF Has(shared, name)
        THEN <<Opt(name, Format(Get(shared, name)))>>
        ELSE <<>>

\* C12: wherever the configuration has its sections, the argument list of
\* every session encodes each parameter with the value of the session's own
\* block when the block defines it and with the value of xnat2bids-args
\* otherwise, whatever other sessions are compiled before or after it.
C12_BlockOverlaysSharedArgs ==
    \A i \in 1..Len(argument_lists) : \A name \in OverlaidParams :
        TokensOf(argument_lists[i].x2b, name)
            = OverlaidTokens(sessions_of(arg_dict)[i], name)

=============================================================================
